---- MODULE Spec2Model ----
(***************************************************************************)
(* A model of the persistence core of deltachat-core, src/dc_sqlite3.c:    *)
(* the Store handle (connection, cached statement slots, transaction       *)
(* counter), the database file it opens, the schema bootstrap and the      *)
(* migration ladder, the config store and the transaction nesting.         *)
(*                                                                         *)
(* C strings are sequences of one-character strings; the NULL pointer is   *)
(* the one-element sequence NullStr.  The SQLite engine is modelled by     *)
(* what its statements do to the schema and the rows the code touches.     *)
(***************************************************************************)
EXTENDS Integers, Sequences, FiniteSets, TLC

(***************************************************************************)
(* Bounds of the model.                                                    *)
(***************************************************************************)
MaxOpens == 2      \* sqlite3_open_v2 calls per behaviour (connection ids)
MaxDepth == 3      \* cap of m_transactionCount
MaxFaults == 1     \* the first connections may meet a failing statement or a stop
MaxRows == 2       \* rows a user inserts into a table
MaxFuel == 70      \* the writes a process completes before it stops

(***************************************************************************)
(* Program constants.                                                      *)
(***************************************************************************)
INT32_MAX == 2147483647
INT32_MIN == (-2147483647) - 1
LatestVersion == 40
LastReserved == 9

(***************************************************************************)
(* C strings, "%i" formatting and atol().                                  *)
(***************************************************************************)
NullStr == <<"NULL">>

DigitChars == <<"0", "1", "2", "3", "4", "5", "6", "7", "8", "9">>

IsDigit(c) == \E i \in 1..10 : DigitChars[i] = c

DigitOf(c) == (CHOOSE i \in 1..10 : DigitChars[i] = c) - 1

IsSpace(c) == c \in {" ", "\t", "\n"}

RECURSIVE PosDigits(_)
PosDigits(n) ==
    IF n < 10 THEN <<DigitChars[n + 1]>>
    ELSE PosDigits(n \div 10) \o <<DigitChars[(n % 10) + 1]>>

\* the digits of |n| for n <= 0, computed without negating n (|INT32_MIN|
\* is no int)
RECURSIVE NegDigits(_)
NegDigits(n) ==
    LET d == (10 - (n % 10)) % 10
    IN  IF n > -10 THEN <<DigitChars[(0 - n) + 1]>>
        ELSE NegDigits((n + d) \div 10) \o <<DigitChars[d + 1]>>

\* dc_mprintf("%i", (int)value)
FormatInt(v) == IF v < 0 THEN <<"-">> \o NegDigits(v) ELSE PosDigits(v)

RECURSIVE SkipSpace(_)
SkipSpace(s) ==
    IF s # <<>> /\ IsSpace(Head(s)) THEN SkipSpace(Tail(s)) ELSE s

\* the digits are accumulated with the sign applied, as strtol does
RECURSIVE AccDigits(_, _, _)
AccDigits(s, acc, neg) ==
    IF s = <<>> \/ ~IsDigit(Head(s)) THEN acc
    ELSE AccDigits(Tail(s),
                   IF neg THEN acc * 10 - DigitOf(Head(s))
                          ELSE acc * 10 + DigitOf(Head(s)),
                   neg)

SignedDigits(s) ==
    IF s = <<>> THEN 0
    ELSE IF Head(s) = "-" THEN AccDigits(Tail(s), 0, TRUE)
    ELSE IF Head(s) = "+" THEN AccDigits(Tail(s), 0, FALSE)
    ELSE AccDigits(s, 0, FALSE)

\* a parse that knows no sign
AtolNoSign(str) == AccDigits(SkipSpace(str), 0, FALSE)

\* atol(): optional white space, optional sign, the longest run of digits;
\* 0 when there is no digit
atol(str) == SignedDigits(SkipSpace(str))

(***************************************************************************)
(* The database file.  cols is the schema: the set of <<table, column>>;   *)
(* idx the set of index names; contacts and chats the ids of their rows;   *)
(* msgs the set of <<id, chat_id>>; peers the rows of acpeerstates; config *)
(* the rows of config in rowid order.                                      *)
(***************************************************************************)
NoFile ==
    [exists |-> FALSE, cols |-> {}, idx |-> {}, contacts |-> {}, chats |-> {},
     msgs |-> {}, peers |-> {}, config |-> <<>>]

EmptyFile == [NoFile EXCEPT !.exists = TRUE]

TableCols(d, t) == {p \in d.cols : p[1] = t}

HasTable(d, t) == TableCols(d, t) # {}

HasCol(d, t, c) == <<t, c>> \in d.cols

\* the statements of the one-shot path, as data
CreateTable(t, cs) == [k |-> "table", t |-> t, n |-> "", c |-> cs, ids |-> {}]
CreateIndex(n, t, c) == [k |-> "index", t |-> t, n |-> n, c |-> {c}, ids |-> {}]
AddColumn(t, c) == [k |-> "column", t |-> t, n |-> "", c |-> {c}, ids |-> {}]
InsertIds(t, ids) == [k |-> "insert", t |-> t, n |-> "", c |-> {}, ids |-> ids]
InsertRow(t) == [k |-> "row", t |-> t, n |-> "", c |-> {}, ids |-> {}]
DeleteOldDeaddrop == [k |-> "delete", t |-> "msgs", n |-> "", c |-> {"chat_id"}, ids |-> {1, 2}]
CopyVerified(key, fp, flag) ==
    [k |-> "update", t |-> "acpeerstates", n |-> key,
     c |-> {"verified_key", "verified_key_fingerprint", key, fp, flag},
     ids |-> {2}]

\* the rowid the engine gives a row inserted without one into a table
\* with an INTEGER PRIMARY KEY: one more than the largest in use
NextRowId(ids) ==
    IF ids = {} THEN 1 ELSE 1 + CHOOSE i \in ids : \A j \in ids : j <= i

\* the chat of the messages a user of the Store inserts
UserChat == 12

\* one statement stepped by the engine on database d: the database after
\* it and whether the step ended in SQLITE_DONE or SQLITE_ROW.  A statement
\* that fails (the table or index exists already, the column is a
\* duplicate or missing, a primary key is taken) changes nothing.
SqlFail(d) == [db |-> d, ok |-> FALSE]

SqlDone(d) == [db |-> d, ok |-> TRUE]

SqlExec(d, s) ==
        CASE s.k = "table" ->
               IF HasTable(d, s.t) THEN SqlFail(d)
               ELSE SqlDone([d EXCEPT !.cols = @ \cup {<<s.t, c>> : c \in s.c}])
          [] s.k = "index" ->
               IF s.n \in d.idx \/ ~HasTable(d, s.t)
                  \/ \E c \in s.c : ~HasCol(d, s.t, c)
               THEN SqlFail(d)
               ELSE SqlDone([d EXCEPT !.idx = @ \cup {s.n}])
          [] s.k = "column" ->
               IF ~HasTable(d, s.t) \/ \E c \in s.c : HasCol(d, s.t, c)
               THEN SqlFail(d)
               ELSE SqlDone([d EXCEPT !.cols = @ \cup {<<s.t, c>> : c \in s.c}])
          [] s.k = "insert" ->
               IF ~HasTable(d, s.t) THEN SqlFail(d)
               ELSE IF s.t = "contacts" THEN
                    IF d.contacts \cap s.ids # {} THEN SqlFail(d)
                    ELSE SqlDone([d EXCEPT !.contacts = @ \cup s.ids])
               ELSE IF s.t = "chats" THEN
                    IF d.chats \cap s.ids # {} THEN SqlFail(d)
                    ELSE SqlDone([d EXCEPT !.chats = @ \cup s.ids])
               ELSE IF {m[1] : m \in d.msgs} \cap s.ids # {} THEN SqlFail(d)
                    ELSE SqlDone([d EXCEPT !.msgs = @ \cup {<<i, 0>> : i \in s.ids}])
          [] s.k = "row" ->
               IF ~HasTable(d, s.t) THEN SqlFail(d)
               ELSE IF s.t = "contacts"
               THEN SqlDone([d EXCEPT !.contacts = @ \cup {NextRowId(@)}])
               ELSE IF s.t = "chats"
               THEN SqlDone([d EXCEPT !.chats = @ \cup {NextRowId(@)}])
               ELSE SqlDone([d EXCEPT !.msgs =
                       @ \cup {<<NextRowId({m[1] : m \in @}), UserChat>>}])
          [] s.k = "delete" ->
               IF ~HasTable(d, s.t) THEN SqlFail(d)
               ELSE SqlDone([d EXCEPT !.msgs = {m \in @ : m[2] \notin s.ids}])
          [] s.k = "update" ->
               IF \E c \in s.c : ~HasCol(d, s.t, c) THEN SqlFail(d)
               ELSE SqlDone([d EXCEPT !.peers =
                      {IF (IF s.n = "gossip_key" THEN r.gossip_key_verified
                                                 ELSE r.public_key_verified) = 2
                       THEN [r EXCEPT !.verified_key = s.n] ELSE r : r \in @}])

(***************************************************************************)
(* The schema statements of dc_sqlite3_open__, in the order of the code.   *)
(***************************************************************************)
BootstrapStmts ==
    << CreateTable("config", {"id", "keyname", "value"}),
       CreateIndex("config_index1", "config", "keyname"),
       CreateTable("contacts", {"id", "name", "addr", "origin", "blocked",
                                "last_seen", "param"}),
       CreateIndex("contacts_index1", "contacts", "name"),
       CreateIndex("contacts_index2", "contacts", "addr"),
       InsertIds("contacts", 1..9),
       CreateTable("chats", {"id", "type", "name", "draft_timestamp",
                             "draft_txt", "blocked", "grpid", "param"}),
       CreateIndex("chats_index1", "chats", "grpid"),
       CreateTable("chats_contacts", {"chat_id", "contact_id"}),
       CreateIndex("chats_contacts_index1", "chats_contacts", "chat_id"),
       InsertIds("chats", 1..9),
       CreateTable("msgs", {"id", "rfc724_mid", "server_folder", "server_uid",
                            "chat_id", "from_id", "to_id", "timestamp", "type",
                            "state", "msgrmsg", "bytes", "txt", "txt_raw",
                            "param"}),
       CreateIndex("msgs_index1", "msgs", "rfc724_mid"),
       CreateIndex("msgs_index2", "msgs", "chat_id"),
       CreateIndex("msgs_index3", "msgs", "timestamp"),
       CreateIndex("msgs_index4", "msgs", "state"),
       InsertIds("msgs", 1..9),
       CreateTable("jobs", {"id", "added_timestamp", "desired_timestamp",
                            "action", "foreign_id", "param"}),
       CreateIndex("jobs_index1", "jobs", "desired_timestamp") >>

BootstrapTables ==
    {"config", "contacts", "chats", "chats_contacts", "msgs", "jobs"}

\* one entry per NEW_DB_VERSION block: its target, its statements, whether
\* it sets recalc_fingerprints, and the statements it runs only when
\* dbversion_before_update == 34
Ladder ==
    << [target |-> 1, recalc |-> FALSE, only34 |-> <<>>, stmts |->
          << CreateTable("leftgrps", {"id", "grpid"}),
             CreateIndex("leftgrps_index1", "leftgrps", "grpid") >>],
       [target |-> 2, recalc |-> FALSE, only34 |-> <<>>, stmts |->
          << AddColumn("contacts", "authname") >>],
       [target |-> 7, recalc |-> FALSE, only34 |-> <<>>, stmts |->
          << CreateTable("keypairs", {"id", "addr", "is_default",
                                      "private_key", "public_key", "created"}) >>],
       [target |-> 10, recalc |-> FALSE, only34 |-> <<>>, stmts |->
          << CreateTable("acpeerstates", {"id", "addr", "last_seen",
                                          "last_seen_autocrypt", "public_key",
                                          "prefer_encrypted"}),
             CreateIndex("acpeerstates_index1", "acpeerstates", "addr") >>],
       [target |-> 12, recalc |-> FALSE, only34 |-> <<>>, stmts |->
          << CreateTable("msgs_mdns", {"msg_id", "contact_id"}),
             CreateIndex("msgs_mdns_index1", "msgs_mdns", "msg_id") >>],
       [target |-> 17, recalc |-> FALSE, only34 |-> <<>>, stmts |->
          << AddColumn("chats", "archived"),
             CreateIndex("chats_index2", "chats", "archived"),
             AddColumn("msgs", "starred"),
             CreateIndex("msgs_index5", "msgs", "starred") >>],
       [target |-> 18, recalc |-> FALSE, only34 |-> <<>>, stmts |->
          << AddColumn("acpeerstates", "gossip_timestamp"),
             AddColumn("acpeerstates", "gossip_key") >>],
       [target |-> 27, recalc |-> FALSE, only34 |-> <<>>, stmts |->
          << DeleteOldDeaddrop,
             CreateIndex("chats_contacts_index2", "chats_contacts", "contact_id"),
             AddColumn("msgs", "timestamp_sent"),
             AddColumn("msgs", "timestamp_rcvd") >>],
       [target |-> 34, recalc |-> TRUE, only34 |-> <<>>, stmts |->
          << AddColumn("msgs", "hidden"),
             AddColumn("msgs_mdns", "timestamp_sent"),
             AddColumn("acpeerstates", "public_key_fingerprint"),
             AddColumn("acpeerstates", "gossip_key_fingerprint"),
             CreateIndex("acpeerstates_index3", "acpeerstates",
                         "public_key_fingerprint"),
             CreateIndex("acpeerstates_index4", "acpeerstates",
                         "gossip_key_fingerprint") >>],
       [target |-> 39, recalc |-> FALSE, stmts |->
          << CreateTable("tokens", {"id", "namespc", "foreign_id", "token",
                                    "timestamp"}),
             AddColumn("acpeerstates", "verified_key"),
             AddColumn("acpeerstates", "verified_key_fingerprint"),
             CreateIndex("acpeerstates_index5", "acpeerstates",
                         "verified_key_fingerprint") >>,
          only34 |->
          << CopyVerified("gossip_key", "gossip_key_fingerprint",
                          "gossip_key_verified"),
             CopyVerified("public_key", "public_key_fingerprint",
                          "public_key_verified") >>],
       [target |-> 40, recalc |-> FALSE, only34 |-> <<>>, stmts |->
          << AddColumn("jobs", "thread") >>] >>

Targets == {Ladder[i].target : i \in 1..Len(Ladder)}

AllTables ==
    {"config", "contacts", "chats", "chats_contacts", "msgs", "jobs",
     "leftgrps", "keypairs", "acpeerstates", "msgs_mdns", "tokens"}

(***************************************************************************)
(* The Store handle and the engine behind it.  A machine M is the handle   *)
(* (cobj, pd, cnt), the database file, the connection's open transaction   *)
(* tx (the uncommitted view of the file) and the log of what the current   *)
(* call has done.                                                          *)
(***************************************************************************)
NullConn == [id |-> 0, ro |-> FALSE]

NoStmt == ""

NoTx == [active |-> FALSE, db |-> NoFile]

\* what a call did (mx: the calls on the mutex m_critical_, each with
\* whether the handle was open then): the cached statements it stepped, whether the first-time
\* init ran, the NEW_DB_VERSION blocks it ran and the dbversion stored at the
\* end of each, whether the repair pass ran, dbversion_before_update, the
\* errors it logged, how many of them before the ladder started, and the
\* dbversion stored when the repair pass ran, and whether the two updates
\* of block 39 were run
NoLog == [sql |-> <<>>, boot |-> FALSE, steps |-> <<>>, versions |-> <<>>,
          repair |-> FALSE, before |-> 0, errors |-> 0, booterrors |-> 0,
          mx |-> <<>>, repairat |-> NullStr, copied |-> FALSE]

\* the environment of a call: the one-shot statements and the cached
\* statements the engine fails (disk full, I/O error, busy), and the number
\* of writing statements after which the process stops, if it does
NoEnv == [fail |-> {}, failsql |-> {}, armed |-> FALSE, left |-> 0]

\* the process has not been stopped
Alive(M) == ~M.env.armed \/ M.env.left > 0

\* one more writing statement has been run
Spent(M) == IF M.env.armed THEN [M EXCEPT !.env.left = @ - 1] ELSE M

\* the enumeration of the cached statement slots this file uses
Slots ==
    {"SELECT_v_FROM_config_k", "INSERT_INTO_config_kv", "UPDATE_config_vk",
     "DELETE_FROM_config_k", "BEGIN_transaction", "ROLLBACK_transaction",
     "COMMIT_transaction"}

SELECT_v_FROM_config_k_STATEMENT == "SELECT value FROM config WHERE keyname=?;"
INSERT_INTO_config_kv_STATEMENT == "INSERT INTO config (keyname, value) VALUES (?, ?);"
UPDATE_config_vk_STATEMENT == "UPDATE config SET value=? WHERE keyname=?;"
DELETE_FROM_config_k_STATEMENT == "DELETE FROM config WHERE keyname=?;"
BEGIN_STATEMENT == "BEGIN;"
ROLLBACK_STATEMENT == "ROLLBACK;"
COMMIT_STATEMENT == "COMMIT;"

NullKey == "(null)"

\* a sqlite3_stmt as sqlite3_prepare_v2 or sqlite3_finalize leaves its slot:
\* not positioned on a row, no parameter bound
Ready == [row |-> FALSE, bound |-> {}]

NoStmts == [i \in Slots |-> Ready]

\* what the connection reads: its own uncommitted changes, if any
View(M) == IF M.tx.active THEN M.tx.db ELSE M.file

\* what the connection writes: into its transaction, or (autocommit) the file
Write(M, d) ==
    IF M.tx.active THEN [M EXCEPT !.tx.db = d] ELSE [M EXCEPT !.file = d]

\* sqlite3_prepare_v2 of a cached statement's text: whether it compiles
Compiles(d, q) ==
    \/ q \in {BEGIN_STATEMENT, ROLLBACK_STATEMENT, COMMIT_STATEMENT}
    \/ /\ q \in {SELECT_v_FROM_config_k_STATEMENT, INSERT_INTO_config_kv_STATEMENT,
                 UPDATE_config_vk_STATEMENT, DELETE_FROM_config_k_STATEMENT}
       /\ HasCol(d, "config", "keyname")
       /\ HasCol(d, "config", "value")

RECURSIVE RowsWithout(_, _)
RowsWithout(rows, key) ==
    IF rows = <<>> THEN <<>>
    ELSE IF Head(rows).keyname = key THEN RowsWithout(Tail(rows), key)
    ELSE <<Head(rows)>> \o RowsWithout(Tail(rows), key)

\* the value of the first row of config whose keyname is key (NullStr: none)
StoredValue(d, key) ==
    IF \A i \in 1..Len(d.config) : d.config[i].keyname # key THEN NullStr
    ELSE d.config[CHOOSE i \in 1..Len(d.config) :
                    /\ d.config[i].keyname = key
                    /\ \A j \in 1..(i - 1) : d.config[j].keyname # key].value

\* the result of a step: the statement is logged as issued
Stepped(M, stmt, rc, col) ==
    [m |-> [M EXCEPT !.log.sql = Append(@, stmt)], rc |-> rc, col |-> col]

\* a writing step on the database d the connection sees
StepWrite(M, stmt, d) ==
    IF ~Alive(M) THEN [m |-> M, rc |-> "SQLITE_INTERRUPT", col |-> NullStr]
    ELSE IF M.cobj.ro THEN Stepped(M, stmt, "SQLITE_READONLY", NullStr)
    ELSE IF stmt \in M.env.failsql
    THEN Stepped(Spent(M), stmt, "SQLITE_FULL", NullStr)
    ELSE Stepped(Write(Spent(M), d), stmt, "SQLITE_DONE", NullStr)

StepOn(M, d, stmt, binds) ==
    IF stmt = NoStmt THEN [m |-> M, rc |-> "SQLITE_MISUSE", col |-> NullStr]
    ELSE IF stmt = SELECT_v_FROM_config_k_STATEMENT THEN
        IF StoredValue(d, binds[1]) = NullStr
        THEN Stepped(M, stmt, "SQLITE_DONE", NullStr)
        ELSE Stepped(M, stmt, "SQLITE_ROW", StoredValue(d, binds[1]))
    ELSE IF stmt = INSERT_INTO_config_kv_STATEMENT THEN
        StepWrite(M, stmt, [d EXCEPT !.config =
                     Append(@, [keyname |-> binds[1], value |-> binds[2]])])
    ELSE IF stmt = UPDATE_config_vk_STATEMENT THEN
        StepWrite(M, stmt, [d EXCEPT !.config =
                     [i \in 1..Len(@) |->
                         IF @[i].keyname = binds[2]
                         THEN [@[i] EXCEPT !.value = binds[1]] ELSE @[i]]])
    ELSE IF stmt = DELETE_FROM_config_k_STATEMENT THEN
        StepWrite(M, stmt, [d EXCEPT !.config = RowsWithout(@, binds[1])])
    ELSE IF stmt = BEGIN_STATEMENT THEN
        IF M.tx.active THEN Stepped(M, stmt, "SQLITE_ERROR", NullStr)
        ELSE Stepped([M EXCEPT !.tx = [active |-> TRUE, db |-> M.file]],
                     stmt, "SQLITE_DONE", NullStr)
    ELSE IF stmt = COMMIT_STATEMENT THEN
        IF ~M.tx.active THEN Stepped(M, stmt, "SQLITE_ERROR", NullStr)
        ELSE IF stmt \in M.env.failsql
        THEN Stepped(M, stmt, "SQLITE_BUSY", NullStr)
        ELSE Stepped([M EXCEPT !.file = M.tx.db, !.tx = NoTx],
                     stmt, "SQLITE_DONE", NullStr)
    ELSE IF stmt = ROLLBACK_STATEMENT THEN
        IF ~M.tx.active THEN Stepped(M, stmt, "SQLITE_ERROR", NullStr)
        ELSE IF stmt \in M.env.failsql
        THEN Stepped(M, stmt, "SQLITE_IOERR", NullStr)
        ELSE Stepped([M EXCEPT !.tx = NoTx], stmt, "SQLITE_DONE", NullStr)
    ELSE Stepped(M, stmt, "SQLITE_ERROR", NullStr)

\* sqlite3_step of a compiled cached statement with its bindings: the
\* machine after it, the result code and (SQLITE_ROW) the column read
sqlite3_step(M, stmt, binds) == StepOn(M, View(M), stmt, binds)

\* a prepare that does not look at m_cobj
PrepareUnchecked(M, querystr) ==
    IF querystr = NoStmt THEN NoStmt
    ELSE IF ~Compiles(View(M), querystr) THEN NoStmt
    ELSE querystr

\* sqlite3_prepare_v2 on the connection: the statement, NoStmt on failure
dc_sqlite3_prepare_v2_(M, querystr) ==
    IF querystr = NoStmt \/ M.cobj = NullConn THEN NoStmt
    ELSE IF ~Compiles(View(M), querystr) THEN NoStmt
    ELSE querystr

\* the tail of dc_sqlite3_execute__: what the one step made of the file
Executed(M, r) ==
    IF r.ok THEN [m |-> Write(M, r.db), ret |-> 1]
    ELSE [m |-> [M EXCEPT !.log.errors = @ + 1], ret |-> 0]

\* a dc_sqlite3_execute__ none of whose statements takes effect
ExecuteNothing(M, s) == [m |-> M, ret |-> 0]

\* dc_sqlite3_execute__ of one schema statement: prepare, step once, finalize
dc_sqlite3_execute__(M, s) ==
    IF M.cobj = NullConn THEN [m |-> M, ret |-> 0]
    ELSE IF ~Alive(M) THEN [m |-> M, ret |-> 0]
    ELSE IF M.cobj.ro THEN [m |-> M, ret |-> 0]
    ELSE IF s \in M.env.fail THEN Executed(Spent(M), SqlFail(View(M)))
    ELSE Executed(Spent(M), SqlExec(View(M), s))

\* TLC evaluates an operator's argument where it is first used; testing a
\* value makes it a value before the next statement runs on it, which keeps
\* the evaluation of a long run of statements shallow
Forced(x) == x = x

\* a run of dc_sqlite3_execute__ calls whose results the caller drops
RECURSIVE ExecuteAll(_, _)
ExecuteRest(M, stmts) == IF Forced(M) THEN ExecuteAll(M, stmts) ELSE M

ExecuteAll(M, stmts) ==
    IF stmts = <<>> THEN M
    ELSE ExecuteRest(dc_sqlite3_execute__(M, Head(stmts)).m, Tail(stmts))

dc_sqlite3_is_open(M) == IF M.cobj = NullConn THEN 0 ELSE 1

\* PRAGMA table_info(name) yields one row per column of the table
dc_sqlite3_table_exists__(M, name) ==
    IF M.cobj = NullConn THEN 0
    ELSE IF TableCols(View(M), name) # {} THEN 1 ELSE 0

\* a reset that leaves the statement where it is
ResetNothing(M, idx) == M

\* sqlite3_reset: the statement is rewound; its bindings keep their values
sqlite3_reset(M, idx) == [M EXCEPT !.st[idx].row = FALSE]

\* a predefine that compiles the text it is given over a compiled slot
PredefineRecompiling(M, idx, querystr) ==
    IF M.cobj = NullConn \/ idx \notin Slots
    THEN [m |-> M, stmt |-> NoStmt, idx |-> idx]
    ELSE IF querystr = NoStmt THEN [m |-> M, stmt |-> M.pd[idx], idx |-> idx]
    ELSE IF ~Compiles(View(M), querystr)
    THEN [m |-> M, stmt |-> M.pd[idx], idx |-> idx]
    ELSE [m |-> [M EXCEPT !.pd[idx] = querystr, !.st[idx] = Ready],
          stmt |-> querystr, idx |-> idx]

dc_sqlite3_predefine__(M, idx, querystr) ==
    IF M.cobj = NullConn \/ idx \notin Slots
    THEN [m |-> M, stmt |-> NoStmt, idx |-> idx]
    ELSE IF M.pd[idx] # NoStmt
    THEN [m |-> sqlite3_reset(M, idx), stmt |-> M.pd[idx], idx |-> idx]
    ELSE IF querystr = NoStmt THEN [m |-> M, stmt |-> NoStmt, idx |-> idx]
    ELSE IF ~Compiles(View(M), querystr)
    THEN [m |-> M, stmt |-> NoStmt, idx |-> idx]
    ELSE [m |-> [M EXCEPT !.pd[idx] = querystr, !.st[idx] = Ready],
          stmt |-> querystr, idx |-> idx]

\* sqlite3_reset on every compiled slot
dc_sqlite3_reset_all_predefinitions(M) ==
    [M EXCEPT !.st = [i \in Slots |->
                        IF M.pd[i] # NoStmt THEN [@[i] EXCEPT !.row = FALSE]
                        ELSE @[i]]]

\* a close that forgets the connection and leaves the slots
CloseKeepingSlots(M) ==
    IF M.cobj # NullConn THEN [M EXCEPT !.cobj = NullConn, !.tx = NoTx] ELSE M

dc_sqlite3_close__(M) ==
    IF M.cobj # NullConn
    THEN [M EXCEPT !.pd = [i \in Slots |-> NoStmt], !.st = NoStmts,
                   !.cobj = NullConn, !.tx = NoTx]
    ELSE M

\* a call on the mutex, with whether the handle is open when it is made
MutexCall(M, op, state) ==
    [M EXCEPT !.mutex = state,
              !.log.mx = Append(@, [op |-> op, open |-> M.cobj # NullConn])]

\* pthread_mutex_lock(&ths->m_critical_), once it has the mutex
dc_sqlite3_lock(M) == MutexCall(M, "lock", "locked")

\* pthread_mutex_unlock(&ths->m_critical_)
dc_sqlite3_unlock(M) == MutexCall(M, "unlock", "unlocked")

\* an unref that closes without the mutex
UnrefWithoutLock(M) == MutexCall(dc_sqlite3_close__(M), "destroy", "destroyed")

\* close under the mutex if the handle is open; pthread_mutex_destroy; free
dc_sqlite3_unref(M) ==
    IF M.cobj # NullConn
    THEN MutexCall(dc_sqlite3_unlock(dc_sqlite3_close__(dc_sqlite3_lock(M))),
                   "destroy", "destroyed")
    ELSE MutexCall(M, "destroy", "destroyed")

\* the bindings and sqlite3_step on the statement dc_sqlite3_predefine__
\* returned
Positioned(s, idx, stmt, n) ==
    IF stmt = NoStmt THEN s
    ELSE [s EXCEPT !.m.st[idx] = [row |-> s.rc = "SQLITE_ROW", bound |-> 1..n]]

StepPredefined(p, binds) ==
    Positioned(sqlite3_step(p.m, p.stmt, binds), p.idx, p.stmt, Len(binds))

(***************************************************************************)
(* Handle configuration.                                                   *)
(***************************************************************************)
\* state = sqlite3_step(stmt); if (state != SQLITE_DONE) return 0; return 1
ConfigWritten(s) ==
    IF s.rc # "SQLITE_DONE"
    THEN [m |-> [s.m EXCEPT !.log.errors = @ + 1], ret |-> 0]
    ELSE [m |-> s.m, ret |-> 1]

\* an upsert that inserts whatever the SELECT found
InsertAlways(s, key, value) ==
    IF s.rc \in {"SQLITE_DONE", "SQLITE_ROW"} THEN
        ConfigWritten(StepPredefined(
            dc_sqlite3_predefine__(s.m, "INSERT_INTO_config_kv",
                                   INSERT_INTO_config_kv_STATEMENT),
            <<key, value>>))
    ELSE [m |-> s.m, ret |-> 0]

\* the branch of dc_sqlite3_set_config__ on the state of the SELECT
InsertOrUpdate(s, key, value) ==
    IF s.rc = "SQLITE_DONE" THEN
        ConfigWritten(StepPredefined(
            dc_sqlite3_predefine__(s.m, "INSERT_INTO_config_kv",
                                   INSERT_INTO_config_kv_STATEMENT),
            <<key, value>>))
    ELSE IF s.rc = "SQLITE_ROW" THEN
        ConfigWritten(StepPredefined(
            dc_sqlite3_predefine__(s.m, "UPDATE_config_vk",
                                   UPDATE_config_vk_STATEMENT),
            <<value, key>>))
    ELSE [m |-> s.m, ret |-> 0]

dc_sqlite3_set_config__(M, key, value) ==
    IF key = NullKey THEN [m |-> M, ret |-> 0]
    ELSE IF dc_sqlite3_is_open(M) = 0 THEN [m |-> M, ret |-> 0]
    ELSE IF value # NullStr THEN
        InsertOrUpdate(StepPredefined(
            dc_sqlite3_predefine__(M, "SELECT_v_FROM_config_k",
                                   SELECT_v_FROM_config_k_STATEMENT),
            <<key>>), key, value)
    ELSE
        ConfigWritten(StepPredefined(
            dc_sqlite3_predefine__(M, "DELETE_FROM_config_k",
                                   DELETE_FROM_config_k_STATEMENT),
            <<key>>))

\* the tail of dc_sqlite3_get_config__: the column of the row, or def
ConfigRead(s, def) ==
    IF s.rc = "SQLITE_ROW" /\ s.col # NullStr
    THEN [m |-> s.m, ret |-> s.col]
    ELSE [m |-> s.m, ret |-> def]

\* the returned string is def (NullStr only if def is) or the stored value
dc_sqlite3_get_config__(M, key, def) ==
    IF dc_sqlite3_is_open(M) = 0 \/ key = NullKey THEN [m |-> M, ret |-> def]
    ELSE ConfigRead(StepPredefined(
            dc_sqlite3_predefine__(M, "SELECT_v_FROM_config_k",
                                   SELECT_v_FROM_config_k_STATEMENT),
            <<key>>), def)

\* the tail of dc_sqlite3_get_config_int__ on the string g read
IntOf(g, def) ==
    IF g.ret = NullStr THEN [m |-> g.m, ret |-> def]
    ELSE [m |-> g.m, ret |-> atol(g.ret)]

dc_sqlite3_get_config_int__(M, key, def) ==
    IntOf(dc_sqlite3_get_config__(M, key, NullStr), def)

dc_sqlite3_set_config_int__(M, key, value) ==
    dc_sqlite3_set_config__(M, key, FormatInt(value))

(***************************************************************************)
(* Transactions.                                                           *)
(***************************************************************************)
\* ths->m_transactionCount++
Incremented(M) == [M EXCEPT !.cnt = @ + 1]

\* ths->m_transactionCount--
Decremented(M) == [M EXCEPT !.cnt = @ - 1]

\* if( sqlite3_step(stmt) != SQLITE_DONE ) dc_sqlite3_log_error(...)
StepLogged(s) ==
    IF s.rc # "SQLITE_DONE" THEN [s.m EXCEPT !.log.errors = @ + 1] ELSE s.m

\* a statement issued at every nesting level
StepAtEveryLevel(M, idx, querystr) ==
    StepLogged(StepPredefined(dc_sqlite3_predefine__(M, idx, querystr), <<>>))

\* the statement of the outermost level: predefine, then step; a step
\* that is not SQLITE_DONE is logged and otherwise ignored
OutermostStep(M, idx, querystr) ==
    IF M.cnt = 1
    THEN StepLogged(StepPredefined(dc_sqlite3_predefine__(M, idx, querystr),
                                   <<>>))
    ELSE M

dc_sqlite3_begin_transaction__(M) ==
    OutermostStep(Incremented(M), "BEGIN_transaction", BEGIN_STATEMENT)

\* a rollback that only counts down
RollbackCounterOnly(M) == IF M.cnt >= 1 THEN Decremented(M) ELSE M

dc_sqlite3_rollback__(M) ==
    IF M.cnt >= 1
    THEN Decremented(OutermostStep(M, "ROLLBACK_transaction", ROLLBACK_STATEMENT))
    ELSE M

\* a commit that keeps its level when the statement failed
DecrementedIfDone(M) == IF M.log.errors > 0 THEN M ELSE Decremented(M)

CommitKeepingFailed(M) ==
    IF M.cnt >= 1
    THEN DecrementedIfDone(OutermostStep(M, "COMMIT_transaction", COMMIT_STATEMENT))
    ELSE M

\* a commit without the guard m_transactionCount >= 1
CommitUnguarded(M) ==
    Decremented(OutermostStep(M, "COMMIT_transaction", COMMIT_STATEMENT))

dc_sqlite3_commit__(M) ==
    IF M.cnt >= 1
    THEN Decremented(OutermostStep(M, "COMMIT_transaction", COMMIT_STATEMENT))
    ELSE M

(***************************************************************************)
(* Open: bootstrap, the migration ladder and the repair pass.              *)
(***************************************************************************)
NullPath == "(null)"

Path == "/tmp/x.db"

\* the end of a block: it has run, and the dbversion row is what it is
BlockEnded(M, st) ==
    [M EXCEPT !.log.steps = Append(@, st.target),
              !.log.versions = Append(@, StoredValue(View(M), "dbversion"))]

\* the updates of a block that are run whatever was observed
CopiedAlways(M, stmts) ==
    IF stmts = <<>> THEN M
    ELSE ExecuteAll([M EXCEPT !.log.copied = TRUE], stmts)

\* if( dbversion_before_update == 34 ) { the two UPDATE acpeerstates }
Only34(M, stmts) ==
    IF stmts = <<>> \/ M.log.before # 34 THEN M
    ELSE ExecuteAll([M EXCEPT !.log.copied = TRUE], stmts)

\* a block that does not write its dbversion
RunBlockNoVersion(M, st) ==
    BlockEnded(Only34(ExecuteAll(M, st.stmts), st.only34), st)

\* a block that writes the version below its target
RunBlockOneBehind(M, st) ==
    BlockEnded(dc_sqlite3_set_config_int__(
                   Only34(ExecuteAll(M, st.stmts), st.only34),
                   "dbversion", st.target - 1).m,
               st)

\* one NEW_DB_VERSION block: its statements, results dropped; the two
\* updates of block 39 when dbversion_before_update is 34; then the
\* dbversion row
RunBlock(M, st) ==
    BlockEnded(dc_sqlite3_set_config_int__(
                   Only34(ExecuteAll(M, st.stmts), st.only34),
                   "dbversion", st.target).m,
               st)

\* the NEW_DB_VERSION blocks from the i-th on; dbversion and
\* recalc_fingerprints are the locals of dc_sqlite3_open__
RECURSIVE RunLadder(_, _, _, _)
LadderRest(M, i, recalc) ==
    IF Forced(M)
    THEN RunLadder(M, i + 1, Ladder[i].target, recalc \/ Ladder[i].recalc)
    ELSE [m |-> M, recalc |-> recalc]

RunLadder(M, i, dbversion, recalc) ==
    IF i > Len(Ladder) \/ ~Alive(M) THEN [m |-> M, recalc |-> recalc]
    ELSE IF dbversion < Ladder[i].target
    THEN LadderRest(RunBlock(M, Ladder[i]), i, recalc)
    ELSE RunLadder(M, i + 1, dbversion, recalc)

\* the repair pass: every row of acpeerstates is loaded, its fingerprints
\* recalculated and the row saved by the peer-state collaborator
Recalculated(M, d) ==
    IF ~Alive(M) THEN M
    ELSE [Write(Spent(M),
                [d EXCEPT !.peers = {[r EXCEPT !.recalced = TRUE] : r \in @}])
             EXCEPT !.log.repair = TRUE,
                    !.log.repairat = StoredValue(View(M), "dbversion")]

RecalcFingerprints(M) == Recalculated(M, View(M))

\* a repair pass that runs in every open
RepairedAlways(r) == [m |-> RecalcFingerprints(r.m), ret |-> 1]

\* if (recalc_fingerprints) { ... }; success
Repaired(r) ==
    [m |-> IF r.recalc THEN RecalcFingerprints(r.m) ELSE r.m, ret |-> 1]

\* a ladder that starts over from its first block whatever was read
UpgradedFromFirst(g) ==
    IF Forced(g)
    THEN Repaired(RunLadder([g.m EXCEPT !.log.before = g.ret], 1, 0, FALSE))
    ELSE [m |-> g.m, ret |-> 0]

\* from the read of dbversion on: dbversion_before_update, the ladder and
\* the repair pass
Upgraded(g) ==
    IF Forced(g)
    THEN Repaired(RunLadder([g.m EXCEPT !.log.before = g.ret], 1, g.ret, FALSE))
    ELSE [m |-> g.m, ret |-> 0]

\* the first-time init has run, with the errors logged so far
BootLogged(M) ==
    [M EXCEPT !.log.boot = TRUE, !.log.booterrors = M.log.errors]

\* after the bootstrap statements: the check of the six tables, dbversion 0
Bootstrapped(M) ==
    IF \E t \in BootstrapTables : dc_sqlite3_table_exists__(M, t) = 0
    THEN [m |-> dc_sqlite3_close__(BootLogged(M)), ret |-> 0]
    ELSE Upgraded([m |-> BootLogged(dc_sqlite3_set_config_int__(M, "dbversion", 0).m),
                   ret |-> 0])

\* a first-time init that inserts no reserved rows
MigrateNoRows(M) ==
    IF dc_sqlite3_table_exists__(M, "config") = 0
    THEN Bootstrapped(ExecuteAll(M, SelectSeq(BootstrapStmts,
                                              LAMBDA st : st.k # "insert")))
    ELSE Upgraded(dc_sqlite3_get_config_int__(M, "dbversion", 0))

\* the read-write branch of dc_sqlite3_open__ on the fresh connection
Migrate(M) ==
    IF dc_sqlite3_table_exists__(M, "config") = 0
    THEN Bootstrapped(ExecuteAll(M, BootstrapStmts))
    ELSE Upgraded(dc_sqlite3_get_config_int__(M, "dbversion", 0))

sqlite3_threadsafe == 1

\* sqlite3_open_v2 has succeeded: the connection, and the file it created
Connected(M, ro) ==
    [M EXCEPT !.cobj = [id |-> M.nconn + 1, ro |-> ro],
              !.nconn = @ + 1,
              !.file = IF @.exists THEN @ ELSE EmptyFile]

\* cleanup: dc_sqlite3_close__(ths); return 0
OpenFailed(M) == [m |-> dc_sqlite3_close__(M), ret |-> 0]

\* an open that ignores MR_OPEN_READONLY
OpenMigrating(M, dbfile, ro) ==
    IF dbfile = NullPath \/ M.cobj # NullConn THEN OpenFailed(M)
    ELSE Migrate(Connected(M, FALSE))

\* dc_sqlite3_open__ with the flag MR_OPEN_READONLY decoded
OpenWith(M, dbfile, ro) ==
    IF dbfile = NullPath THEN OpenFailed(M)
    ELSE IF sqlite3_threadsafe = 0 THEN OpenFailed(M)
    ELSE IF M.cobj # NullConn THEN OpenFailed(M)
    ELSE IF ro /\ ~M.file.exists
         \* sqlite3_open_v2 without SQLITE_OPEN_CREATE: SQLITE_CANTOPEN
         THEN OpenFailed(M)
    ELSE IF ~ro THEN Migrate(Connected(M, ro))
    ELSE [m |-> Connected(M, ro), ret |-> 1]

dc_sqlite3_open__(M, dbfile, flags) ==
    OpenWith(M, dbfile, "MR_OPEN_READONLY" \in flags)

(***************************************************************************)
(* The database files an open may find: none, an empty one, and the file   *)
(* as the ladder leaves it at each stored dbversion, with user rows.       *)
(***************************************************************************)
RECURSIVE ApplyAll(_, _)
ApplyRest(d, stmts) == IF Forced(d) THEN ApplyAll(d, stmts) ELSE d

ApplyAll(d, stmts) ==
    IF stmts = <<>> THEN d
    ELSE ApplyRest(SqlExec(d, Head(stmts)).db, Tail(stmts))

RECURSIVE SchemaAt(_, _, _)
SchemaRest(d, i, v) == IF Forced(d) THEN SchemaAt(d, i + 1, v) ELSE d

SchemaAt(d, i, v) ==
    IF i > Len(Ladder) \/ Ladder[i].target > v THEN d
    ELSE SchemaRest(ApplyAll(d, Ladder[i].stmts), i, v)

\* version 34 (0.17.0) alone had the columns public_key_verified and
\* gossip_key_verified
WithRows(d, v) ==
    [d EXCEPT
       !.cols = IF v = 34
                THEN @ \cup {<<"acpeerstates", "gossip_key_verified">>,
                             <<"acpeerstates", "public_key_verified">>}
                ELSE @,
       !.contacts = @ \cup {10},
       !.chats = @ \cup {10},
       !.msgs = @ \cup {<<10, 10>>} \cup (IF v < 27 THEN {<<11, 1>>} ELSE {}),
       !.peers = IF v >= 10
                 THEN {[addr |-> "a@b", verified_key |-> "", recalced |-> FALSE,
                        gossip_key_verified |-> IF v = 34 THEN 2 ELSE 0,
                        public_key_verified |-> 0]}
                 ELSE {},
       !.config = <<[keyname |-> "dbversion", value |-> FormatInt(v)]>>]

SeedDb(v) == WithRows(SchemaAt(ApplyAll(EmptyFile, BootstrapStmts), 1, v), v)

SeedVersions == 0..LatestVersion

Seeds == {NoFile, EmptyFile} \cup {SeedDb(v) : v \in SeedVersions}

(***************************************************************************)
(* The state: the fields of dc_sqlite3_t, the database file, the           *)
(* connection's transaction, and what an observer of the calls records.    *)
(***************************************************************************)
VARIABLES
    m_cobj,              \* the connection, NullConn when closed
    m_pd,                \* the cached statement slots
    m_transactionCount,  \* the nesting counter
    file,                \* the database file (its committed content)
    tx,                  \* the connection's open physical transaction
    nconn,               \* connections opened so far
    stmts,               \* the sqlite3_stmt behind each slot: cursor, bindings
    m_critical_,         \* the mutex
    last,                \* the last call: its arguments, result and log
    run,                 \* begin/commit/rollback calls and the statements
                         \* they issued since the open Store had counter 0
    threads              \* the threads sharing the handle: who holds the
                         \* mutex, each one's own begin/commit nesting

vars ==
    <<m_cobj, m_pd, m_transactionCount, file, tx, nconn, stmts, m_critical_,
      last, run, threads>>

Pack ==
    [cobj |-> m_cobj, pd |-> m_pd, cnt |-> m_transactionCount, file |-> file,
     tx |-> tx, nconn |-> nconn, st |-> stmts, mutex |-> m_critical_,
     log |-> NoLog, env |-> NoEnv, thr |-> threads]

Unpack(M) ==
    /\ m_cobj' = M.cobj
    /\ m_pd' = M.pd
    /\ m_transactionCount' = M.cnt
    /\ file' = M.file
    /\ tx' = M.tx
    /\ nconn' = M.nconn
    /\ stmts' = M.st
    /\ m_critical_' = M.mutex
    /\ threads' = M.thr

NoCall ==
    [op |-> "new", ret |-> 0, sret |-> NullStr, dbfile |-> NullPath,
     key |-> NullKey, val |-> NullStr,
     ival |-> 0, def |-> NullStr, idef |-> 0, depth |-> 0, ro |-> FALSE,
     conn |-> NullConn, pd |-> [i \in Slots |-> NoStmt], existed |-> FALSE,
     version |-> NullStr, log |-> NoLog, stmt |-> NoStmt,
     reg |-> [i \in Slots |-> NoStmt], thread |-> 0]

\* the call about to be made, on the handle as it is
Call(op) ==
    [NoCall EXCEPT !.op = op, !.conn = m_cobj, !.depth = m_transactionCount,
                   !.reg = last.reg]

\* per slot, the text of the first statement registered in it since the
\* open: reg so far, and the slots pd a call filled with its own text
Registered(reg, pd) == [i \in Slots |-> IF reg[i] # NoStmt THEN reg[i] ELSE pd[i]]

NoRun == [valid |-> FALSE, calls |-> <<>>, sql |-> <<>>]

\* the threads that share the handle (0: none of them)
Threads == {1, 2}

\* no thread holds the mutex, none has begun a transaction, written a row
\* or stepped a cached statement
NoThreads ==
    [owner |-> 0, nest |-> [t \in Threads |-> 0],
     wrote |-> [t \in Threads |-> {}], done |-> {},
     using |-> [t \in Threads |-> {}]]

\* the inputs of the calls
Paths == {NullPath, Path}
Flags == {{}, {"MR_OPEN_READONLY"}}
TableNames == AllTables \cup {"nosuch"}
Keys == {"k1"}
StrValues == {<<>>, <<"x", "4">>, <<"4", "x">>, <<" ", "-", "5", "y">>, <<"+", "3">>}
IntValues == {INT32_MIN, -10, 0, 7, INT32_MAX}
StrDefaults == {NullStr, <<"o">>}
IntDefaults == {0, 5}

\* dc_sqlite3_new: calloc'ed, every slot NULL
InitHandle ==
    /\ m_cobj = NullConn
    /\ m_pd = [i \in Slots |-> NoStmt]
    /\ m_transactionCount = 0
    /\ tx = NoTx
    /\ nconn = 0
    /\ stmts = NoStmts
    /\ m_critical_ = "unlocked"
    /\ last = NoCall
    /\ run = NoRun
    /\ threads = NoThreads

Init == InitHandle /\ file \in Seeds

Opened(r, dbfile, flags) ==
    /\ Unpack(r.m)
    /\ last' = [Call("open") EXCEPT !.ret = r.ret, !.pd = m_pd,
                   !.dbfile = dbfile,
                   !.ro = "MR_OPEN_READONLY" \in flags,
                   !.existed = file.exists,
                   !.version = StoredValue(file, "dbversion"),
                   !.log = r.m.log, !.reg = r.m.pd]
    /\ run' = NoRun

Open(dbfile, flags) ==
    /\ nconn < MaxOpens
    /\ Opened(dc_sqlite3_open__(Pack, dbfile, flags), dbfile, flags)

\* the engine refuses one statement of the open: a statement run through
\* dc_sqlite3_execute__ (fail) or a prepared statement stepped (failsql)
BootstrapFaults ==
    {[NoEnv EXCEPT !.fail = {BootstrapStmts[i]}] : i \in {2, 3, 6, 19}}
        \cup {[NoEnv EXCEPT !.failsql = {INSERT_INTO_config_kv_STATEMENT}]}

\* the engine refuses one schema statement of one NEW_DB_VERSION block
LadderFaults ==
    UNION {{[NoEnv EXCEPT !.fail = {Ladder[i].stmts[k]}] :
                k \in 1..Len(Ladder[i].stmts)} : i \in 1..Len(Ladder)}

OpenFaulty(env) ==
    /\ nconn < MaxFaults
    /\ Opened(dc_sqlite3_open__([Pack EXCEPT !.env = env], Path, {}), Path, {})

\* the process stopped during a read-write open: the file keeps what was
\* written, the handle is gone with the process, and the next process
\* starts with a handle from dc_sqlite3_new
Stopped(r) ==
    /\ ~Alive(r.m)
    /\ file' = r.m.file
    /\ nconn' = r.m.nconn
    /\ m_cobj' = NullConn
    /\ m_pd' = [i \in Slots |-> NoStmt]
    /\ m_transactionCount' = 0
    /\ tx' = NoTx
    /\ stmts' = NoStmts
    /\ m_critical_' = "unlocked"
    /\ threads' = NoThreads
    /\ last' = [Call(IF r.m.log.steps # <<>> THEN "stop_in_ladder"
                                             ELSE "stop_in_bootstrap")
                   EXCEPT !.existed = file.exists,
                          !.version = StoredValue(file, "dbversion"),
                          !.log = r.m.log, !.reg = NoCall.reg]
    /\ run' = NoRun

OpenInterrupted(n) ==
    /\ nconn < MaxFaults
    /\ Stopped(dc_sqlite3_open__(
                   [Pack EXCEPT !.env = [NoEnv EXCEPT !.armed = TRUE,
                                                      !.left = n]],
                   Path, {}))

Close ==
    /\ Unpack(dc_sqlite3_close__(Pack))
    /\ last' = [Call("close") EXCEPT !.pd = m_pd, !.reg = NoCall.reg]
    /\ run' = NoRun

TableExists(name) ==
    /\ UNCHANGED <<m_cobj, m_pd, m_transactionCount, file, tx, nconn, stmts,
                   m_critical_, run, threads>>
    /\ last' = [Call("table_exists") EXCEPT !.key = name,
                   !.ret = dc_sqlite3_table_exists__(Pack, name)]

\* the run a begin/commit/rollback call belongs to: a new one when the
\* Store is open with counter 0
RunBase ==
    IF m_cobj # NullConn /\ m_transactionCount = 0
    THEN [valid |-> TRUE, calls |-> <<>>, sql |-> <<>>]
    ELSE run

Recorded(base, call, M) ==
    IF base.valid
    THEN [base EXCEPT !.calls = Append(@, call), !.sql = @ \o M.log.sql]
    ELSE NoRun

TxCall(call, M) ==
    /\ Len(RunBase.calls) < 2 * MaxDepth
    /\ Unpack(M)
    /\ last' = [Call(call) EXCEPT !.log = M.log,
                                  !.reg = Registered(last.reg, M.pd)]
    /\ run' = Recorded(RunBase, call, M)

Begin ==
    /\ m_transactionCount < MaxDepth
    /\ TxCall("begin", dc_sqlite3_begin_transaction__(Pack))

Commit == TxCall("commit", dc_sqlite3_commit__(Pack))

Rollback == TxCall("rollback", dc_sqlite3_rollback__(Pack))

\* a config call returned r
ConfigCalled(r, call) ==
    /\ Unpack(r.m)
    /\ last' = [call EXCEPT !.log = r.m.log,
                            !.reg = Registered(last.reg, r.m.pd)]
    /\ UNCHANGED run

SetConfig(key, value) ==
    ConfigCalled(dc_sqlite3_set_config__(Pack, key, value),
                 [Call("set_config") EXCEPT !.key = key, !.val = value,
                     !.ret = dc_sqlite3_set_config__(Pack, key, value).ret])

GetConfig(key, def) ==
    ConfigCalled(dc_sqlite3_get_config__(Pack, key, def),
                 [Call("get_config") EXCEPT !.key = key, !.def = def,
                     !.sret = dc_sqlite3_get_config__(Pack, key, def).ret])

SetConfigInt(key, value) ==
    ConfigCalled(dc_sqlite3_set_config_int__(Pack, key, value),
                 [Call("set_config_int") EXCEPT !.key = key, !.ival = value,
                     !.ret = dc_sqlite3_set_config_int__(Pack, key, value).ret])

GetConfigInt(key, def) ==
    ConfigCalled(dc_sqlite3_get_config_int__(Pack, key, def),
                 [Call("get_config_int") EXCEPT !.key = key, !.idef = def,
                     !.ret = dc_sqlite3_get_config_int__(Pack, key, def).ret])

\* the statements a user of the Store runs: a row inserted without an id
ExecStmts == {InsertRow(t) : t \in {"contacts", "chats", "msgs"}}

RowIds(d, t) ==
    IF t = "contacts" THEN d.contacts
    ELSE IF t = "chats" THEN d.chats
    ELSE {m[1] : m \in d.msgs}

Execute(s) ==
    /\ NextRowId(RowIds(View(Pack), s.t)) <= LastReserved + MaxRows
    /\ ConfigCalled(dc_sqlite3_execute__(Pack, s),
                    [Call("execute") EXCEPT !.key = s.t,
                        !.ret = dc_sqlite3_execute__(Pack, s).ret])

\* the texts passed to prepare and predefine: of a cached statement, of
\* another, none, and one that does not compile
QueryStrs ==
    {SELECT_v_FROM_config_k_STATEMENT, BEGIN_STATEMENT, NoStmt, "SELECT nothing"}

\* an index at or above PREDEFINED_CNT
PREDEFINED_CNT == "PREDEFINED_CNT"

SlotArgs == {"SELECT_v_FROM_config_k", "BEGIN_transaction", PREDEFINED_CNT}

Prepare(querystr) ==
    /\ UNCHANGED <<m_cobj, m_pd, m_transactionCount, file, tx, nconn, stmts,
                   m_critical_, run, threads>>
    /\ last' = [Call("prepare") EXCEPT
                   !.stmt = dc_sqlite3_prepare_v2_(Pack, querystr)]

\* the first text registered in slot idx, after a predefine that returned
\* the statement p.stmt for the text querystr
RegisteredBy(reg, p, querystr) ==
    IF p.idx \in Slots /\ p.stmt # NoStmt /\ reg[p.idx] = NoStmt
    THEN [reg EXCEPT ![p.idx] = querystr]
    ELSE reg

Predefined(p, querystr) ==
    /\ Unpack(p.m)
    /\ last' = [Call("predefine") EXCEPT !.key = p.idx, !.val = <<querystr>>,
                   !.stmt = p.stmt, !.pd = m_pd,
                   !.reg = RegisteredBy(last.reg, p, querystr)]
    /\ UNCHANGED run

Predefine(idx, querystr) ==
    Predefined(dc_sqlite3_predefine__(Pack, idx, querystr), querystr)

ResetAll ==
    /\ Unpack(dc_sqlite3_reset_all_predefinitions(Pack))
    /\ last' = [Call("reset_all") EXCEPT !.pd = m_pd]
    /\ UNCHANGED run

\* dc_sqlite3_lock returns when the mutex is free
Lock ==
    /\ m_critical_ = "unlocked"
    /\ Unpack(dc_sqlite3_lock(Pack))
    /\ last' = [Call("lock") EXCEPT !.log = dc_sqlite3_lock(Pack).log]
    /\ UNCHANGED run

Unlock ==
    /\ m_critical_ = "locked"
    /\ Unpack(dc_sqlite3_unlock(Pack))
    /\ last' = [Call("unlock") EXCEPT !.log = dc_sqlite3_unlock(Pack).log]
    /\ UNCHANGED run

\* unref by the last user of the handle, nobody holding the mutex
Unref ==
    /\ m_critical_ = "unlocked"
    /\ Unpack(dc_sqlite3_unref(Pack))
    /\ last' = [Call("unref") EXCEPT !.pd = m_pd,
                                     !.log = dc_sqlite3_unref(Pack).log]
    /\ run' = NoRun

\* a commit and a rollback whose statement the engine fails (busy, I/O)
CommitFailing ==
    TxCall("commit",
           dc_sqlite3_commit__([Pack EXCEPT !.env.failsql = {COMMIT_STATEMENT}]))

RollbackFailing ==
    TxCall("rollback",
           dc_sqlite3_rollback__([Pack EXCEPT !.env.failsql = {ROLLBACK_STATEMENT}]))

\* the slots whose cached statement a call stepped
SlotsStepped(M) ==
    {i \in Slots : \E k \in 1..Len(M.log.sql) : M.log.sql[k] = M.pd[i]}

\* a call thread t made, M the handle after it, thr the threads after it
ThreadCalled(t, call, M, thr) ==
    /\ Unpack([M EXCEPT !.thr = [thr EXCEPT !.using[t] = @ \cup SlotsStepped(M)]])
    /\ last' = [call EXCEPT !.thread = t, !.log = M.log,
                            !.reg = Registered(last.reg, M.pd)]
    /\ UNCHANGED run

\* pthread_mutex_lock returns in thread t once no thread holds the mutex
ThreadLock(t) ==
    /\ m_critical_ = "unlocked"
    /\ ThreadCalled(t, Call("lock"), dc_sqlite3_lock(Pack),
                    [threads EXCEPT !.owner = t])

\* the thread that holds the mutex releases it: it is done with the
\* cached statements it stepped
ThreadUnlock(t) ==
    /\ threads.owner = t
    /\ ThreadCalled(t, Call("unlock"), dc_sqlite3_unlock(Pack),
                    [threads EXCEPT !.owner = 0, !.using[t] = {}])

ThreadOpen(t) ==
    /\ threads.owner = t
    /\ m_cobj = NullConn
    /\ nconn < MaxOpens
    /\ ThreadCalled(t, [Call("open") EXCEPT
                           !.ret = dc_sqlite3_open__(Pack, Path, {}).ret],
                    dc_sqlite3_open__(Pack, Path, {}).m, threads)

ThreadBegin(t) ==
    /\ threads.owner = t
    /\ m_cobj # NullConn
    /\ m_transactionCount < MaxDepth
    /\ ThreadCalled(t, Call("begin"), dc_sqlite3_begin_transaction__(Pack),
                    [threads EXCEPT !.nest[t] = @ + 1])

\* a row thread t inserts between its begin and its commit
ThreadWrite(t) ==
    /\ threads.owner = t
    /\ threads.nest[t] >= 1
    /\ NextRowId(View(Pack).chats) <= LastReserved + MaxRows
    /\ ThreadCalled(t, [Call("execute") EXCEPT !.key = "chats",
                           !.ret = dc_sqlite3_execute__(Pack, InsertRow("chats")).ret],
                    dc_sqlite3_execute__(Pack, InsertRow("chats")).m,
                    [threads EXCEPT
                        !.wrote[t] = @ \cup {NextRowId(View(Pack).chats)}])

\* thread t left one level of its own nesting; with the outermost level
\* committed, the rows it wrote are the rows it has committed
ThreadEnded(thr, t, committed) ==
    IF thr.nest[t] > 1 THEN [thr EXCEPT !.nest[t] = @ - 1]
    ELSE [thr EXCEPT !.nest[t] = 0, !.wrote[t] = {},
                     !.done = IF committed THEN @ \cup thr.wrote[t] ELSE @]

ThreadCommit(t) ==
    /\ threads.owner = t
    /\ threads.nest[t] >= 1
    /\ ThreadCalled(t, Call("commit"), dc_sqlite3_commit__(Pack),
                    ThreadEnded(threads, t, TRUE))

ThreadRollback(t) ==
    /\ threads.owner = t
    /\ threads.nest[t] >= 1
    /\ ThreadCalled(t, Call("rollback"), dc_sqlite3_rollback__(Pack),
                    ThreadEnded(threads, t, FALSE))

ThreadConfigured(t, r, call) ==
    ThreadCalled(t, [call EXCEPT !.ret = r.ret], r.m, threads)

ThreadSetConfig(t, key, value) ==
    /\ threads.owner = t
    /\ ThreadConfigured(t, dc_sqlite3_set_config__(Pack, key, value),
                        [Call("set_config") EXCEPT !.key = key, !.val = value])

(***************************************************************************)
(* Specifications.  Spec: the lifecycle of the handle on every database    *)
(* file.  SpecTx: the transaction calls.  SpecCfg: the config store.       *)
(***************************************************************************)
Next ==
    \/ \E dbfile \in Paths, flags \in Flags : Open(dbfile, flags)
    \/ Close
    \/ \E name \in TableNames : TableExists(name)

Spec == Init /\ [][Next]_vars

InitTx == InitHandle /\ file \in {NoFile, SeedDb(18)}

NextTx ==
    \/ \E flags \in Flags : Open(Path, flags)
    \/ Close
    \/ Begin
    \/ Commit
    \/ Rollback

SpecTx == InitTx /\ [][NextTx]_vars

NextTxFault ==
    \/ \E flags \in Flags : Open(Path, flags)
    \/ Close
    \/ Begin
    \/ Commit
    \/ Rollback
    \/ CommitFailing
    \/ RollbackFailing

SpecTxFault == InitTx /\ [][NextTxFault]_vars

InitCfg == InitHandle /\ file \in {NoFile, SeedDb(18)}

NextCfg ==
    \/ \E flags \in Flags : Open(Path, flags)
    \/ \E key \in Keys \cup {NullKey}, value \in StrValues \cup {NullStr} :
          SetConfig(key, value)
    \/ \E key \in Keys \cup {NullKey}, def \in StrDefaults : GetConfig(key, def)
    \/ \E key \in Keys, value \in IntValues : SetConfigInt(key, value)
    \/ \E key \in Keys, def \in IntDefaults : GetConfigInt(key, def)

SpecCfg == InitCfg /\ [][NextCfg]_vars

InitFault == InitHandle /\ file \in {NoFile, SeedDb(18), SeedDb(34)}

NextFault ==
    \/ \E flags \in Flags : Open(Path, flags)
    \/ \E env \in BootstrapFaults : OpenFaulty(env)
    \/ \E n \in 1..MaxFuel : OpenInterrupted(n)
    \/ Close

SpecFault == InitFault /\ [][NextFault]_vars

InitRows == InitHandle /\ file \in {NoFile, EmptyFile, SeedDb(18)}

NextRows ==
    \/ \E flags \in Flags : Open(Path, flags)
    \/ Close
    \/ \E s \in ExecStmts : Execute(s)

SpecRows == InitRows /\ [][NextRows]_vars

InitStmt == InitHandle /\ file \in {NoFile, SeedDb(18)}

NextStmt ==
    \/ \E flags \in Flags : Open(Path, flags)
    \/ Close
    \/ Execute(InsertRow("chats"))
    \/ \E q \in QueryStrs : Prepare(q)
    \/ \E idx \in SlotArgs, q \in QueryStrs : Predefine(idx, q)
    \/ ResetAll
    \/ SetConfig("k1", <<"x", "4">>)
    \/ GetConfig("k1", <<"o">>)
    \/ TableExists("msgs")

SpecStmt == InitStmt /\ [][NextStmt]_vars

InitLock == InitHandle /\ file = SeedDb(LatestVersion)

\* the handle is used until dc_sqlite3_unref has freed it
NextLock ==
    /\ m_critical_ # "destroyed"
    /\ \/ Open(Path, {})
       \/ Close
       \/ Lock
       \/ Unlock
       \/ Unref
       \/ (m_transactionCount = 0 /\ Begin)
       \/ Commit
       \/ Rollback
       \/ Execute(DeleteOldDeaddrop)
       \/ Predefine("BEGIN_transaction", BEGIN_STATEMENT)
       \/ SetConfig("k1", <<"x", "4">>)
       \/ GetConfig("k1", <<"o">>)

SpecLock == InitLock /\ [][NextLock]_vars

\* the opens, faulty and interrupted, of databases that start below 34
InitBelow34 == InitHandle /\ file \in {NoFile, SeedDb(18), SeedDb(27)}

SpecResume == InitBelow34 /\ [][NextFault]_vars

\* opens during which one statement of the ladder fails
NextLadderFault ==
    \/ \E flags \in Flags : Open(Path, flags)
    \/ \E env \in LadderFaults : OpenFaulty(env)
    \/ Close

SpecLadderFault == InitFault /\ [][NextLadderFault]_vars

\* threads sharing the handle, every call between lock and unlock
InitThreads == InitHandle /\ file = SeedDb(LatestVersion)

NextThreads ==
    \/ \E t \in Threads : ThreadLock(t)
    \/ \E t \in Threads : ThreadUnlock(t)
    \/ \E t \in Threads : ThreadOpen(t)
    \/ \E t \in Threads : ThreadBegin(t)
    \/ \E t \in Threads : ThreadWrite(t)
    \/ \E t \in Threads : ThreadCommit(t)
    \/ \E t \in Threads : ThreadRollback(t)

SpecThreads == InitThreads /\ [][NextThreads]_vars

\* the values the threads store under one key, NULL deleting the row
ThreadValues == {<<"x", "4">>, <<"+", "3">>, NullStr}

NextThreadsCfg ==
    \/ \E t \in Threads : ThreadLock(t)
    \/ \E t \in Threads : ThreadUnlock(t)
    \/ \E t \in Threads : ThreadOpen(t)
    \/ \E t \in Threads, key \in Keys, value \in ThreadValues :
          ThreadSetConfig(t, key, value)
    \/ \E t \in Threads : ThreadBegin(t)
    \/ \E t \in Threads : ThreadRollback(t)

SpecThreadsCfg == InitThreads /\ [][NextThreadsCfg]_vars

(***************************************************************************)
(* The properties.                                                        *)
(***************************************************************************)
\* the dbversion get_config_int reads on the handle as it is
StoredVersion == dc_sqlite3_get_config_int__(Pack, "dbversion", 0).ret

TablesOf(M) == {t \in AllTables : dc_sqlite3_table_exists__(M, t) = 1}

\* C1: after a successful read-write open of a database that is empty or
\* whose stored dbversion is any value from 0 to 40, the stored dbversion
\* is 40; a successful open of a database that is at 40 finds 40 again
\* (open; close; open observes the same value).
C1_LatestVersionAfterOpen ==
    (last.op = "open" /\ last.ret = 1) =>
        /\ (~last.ro /\ (last.version = NullStr
                         \/ atol(last.version) \in 0..LatestVersion))
              => StoredVersion = LatestVersion
        /\ last.version = FormatInt(LatestVersion)
              => StoredVersion = LatestVersion

C1_Witness ==
    /\ last.op = "open" /\ last.ret = 1 /\ ~last.ro
    /\ last.version = FormatInt(18)
    /\ last.log.steps = <<27, 34, 39, 40>>
    /\ StoredVersion = LatestVersion

\* C2 as stated: in every open Store, however it was opened, all eleven
\* tables exist.
C2_TablesInEveryOpenStore ==
    m_cobj # NullConn => TablesOf(Pack) = AllTables

\* C2, amended: in every Store opened read-write (on a database that was
\* empty or that the ladder had left at a stored dbversion 0..40) all
\* eleven tables exist.
C2_TablesAfterReadWriteOpen ==
    (m_cobj # NullConn /\ ~m_cobj.ro) => TablesOf(Pack) = AllTables

C2_Witness ==
    /\ last.op = "open" /\ last.ret = 1 /\ ~last.ro
    /\ last.version = FormatInt(7)
    /\ m_cobj # NullConn
    /\ TablesOf(Pack) = AllTables

\* C3: an open with MR_OPEN_READONLY runs neither the bootstrap nor a
\* ladder step nor the repair pass and leaves the database file as it was
\* (schema, rows, dbversion); on a closed handle and an existing database
\* file it succeeds and the handle is open.
C3_ReadOnlyOpenChangesNothing ==
    [][(last'.op = "open" /\ last'.ro) =>
          /\ file' = file
          /\ ~last'.log.boot
          /\ last'.log.steps = <<>>
          /\ ~last'.log.repair
          /\ (m_cobj = NullConn /\ file.exists /\ last'.dbfile # NullPath)
                => (last'.ret = 1 /\ m_cobj' # NullConn)]_vars

C3_Witness ==
    /\ last.op = "open" /\ last.ro /\ last.ret = 1
    /\ last.version = FormatInt(18)
    /\ StoredVersion = 18
    /\ "tokens" \notin TablesOf(Pack)

\* C4: on an open Store with counter 0, N nested begins followed by N
\* commits issue one BEGIN, at the first begin, and one COMMIT, at the last
\* commit, and the counter is 0 again.
C4_NestedBeginCommit ==
    \A n \in 1..MaxDepth : \A k \in 0..n :
        (/\ run.valid
         /\ run.calls = [i \in 1..(n + k) |-> IF i <= n THEN "begin" ELSE "commit"])
        => /\ run.sql = IF k = n THEN <<BEGIN_STATEMENT, COMMIT_STATEMENT>>
                                 ELSE <<BEGIN_STATEMENT>>
           /\ m_transactionCount = n - k

C4_Witness ==
    /\ run.valid
    /\ run.calls = <<"begin", "begin", "begin", "commit", "commit", "commit">>
    /\ run.sql = <<BEGIN_STATEMENT, COMMIT_STATEMENT>>
    /\ m_transactionCount = 0

\* the BEGINs a run has issued that no COMMIT or ROLLBACK has ended
OpenTransactions(sql) ==
    Len(SelectSeq(sql, LAMBDA q : q = BEGIN_STATEMENT))
    - Len(SelectSeq(sql, LAMBDA q : q \in {COMMIT_STATEMENT, ROLLBACK_STATEMENT}))

\* C5: during any sequence of begin, commit and rollback calls on an open
\* Store that starts at counter 0, the BEGINs issued minus the COMMITs and
\* ROLLBACKs issued is 0 or 1, it is 1 exactly when the counter is >= 1
\* (and then the connection has its one transaction open), and a commit or
\* rollback at depth >= 2 issues no statement.
C5_OnePhysicalTransaction ==
    run.valid =>
        /\ OpenTransactions(run.sql) \in {0, 1}
        /\ OpenTransactions(run.sql) = 1 <=> m_transactionCount >= 1
        /\ tx.active <=> m_transactionCount >= 1
        /\ (last.op \in {"commit", "rollback"} /\ last.depth >= 2)
              => last.log.sql = <<>>

C5_Witness ==
    /\ run.valid
    /\ last.op = "rollback" /\ last.depth = 2
    /\ m_transactionCount = 1
    /\ OpenTransactions(run.sql) = 1
    /\ tx.active

\* C6: the transaction counter is never negative; a commit or rollback at
\* counter 0 issues no statement and leaves the counter at 0.
C6_CounterNeverNegative ==
    /\ m_transactionCount >= 0
    /\ (last.op \in {"commit", "rollback"} /\ last.depth = 0)
          => (last.log.sql = <<>> /\ m_transactionCount = 0)

C6_Witness ==
    /\ last.op = "commit" /\ last.depth = 0
    /\ m_cobj # NullConn
    /\ m_transactionCount = 0

\* C7: on a Store opened read-write set_config(k, v) succeeds, and after a
\* set_config(k, v) that succeeded get_config(k, d) returns v for every
\* default d, whether k was absent or present before; after
\* set_config(k, absent) it returns d.
C7_ConfigRoundTrip ==
    (last.op = "set_config" /\ last.key # NullKey /\ last.conn # NullConn) =>
        /\ ~last.conn.ro => last.ret = 1
        /\ last.ret = 1 =>
              \A d \in StrDefaults :
                  dc_sqlite3_get_config__(Pack, last.key, d).ret
                      = IF last.val # NullStr THEN last.val ELSE d

C7_Witness ==
    /\ last.op = "set_config" /\ last.ret = 1
    /\ last.val = <<"x", "4">>
    /\ last.log.sql = <<SELECT_v_FROM_config_k_STATEMENT, UPDATE_config_vk_STATEMENT>>
    /\ dc_sqlite3_get_config__(Pack, last.key, <<"o">>).ret = <<"x", "4">>

\* C8: for every 32-bit v, the range limits included, set_config_int(k, v)
\* on a Store opened read-write succeeds, and after it
\* get_config_int(k, 0) returns v.
C8_IntRoundTrip ==
    (last.op = "set_config_int" /\ last.conn # NullConn) =>
        /\ ~last.conn.ro => last.ret = 1
        /\ last.ret = 1 =>
              dc_sqlite3_get_config_int__(Pack, last.key, 0).ret = last.ival

C8_Witness ==
    /\ last.op = "set_config_int" /\ last.ret = 1
    /\ last.ival = INT32_MIN
    /\ dc_sqlite3_get_config_int__(Pack, last.key, 0).ret = INT32_MIN

\* C9 as stated: get_config_int(k, d) returns d when the key is absent and
\* when the stored string has no leading integer, and the leading integer
\* otherwise.
C9_DefaultWhenAbsentOrNonNumeric ==
    (last.op = "get_config_int" /\ last.conn # NullConn) =>
        LET str  == StoredValue(View(Pack), last.key)
            body == IF SkipSpace(str) # <<>> /\ Head(SkipSpace(str)) \in {"-", "+"}
                    THEN Tail(SkipSpace(str)) ELSE SkipSpace(str)
        IN  last.ret = IF str = NullStr \/ body = <<>> \/ ~IsDigit(Head(body))
                       THEN last.idef
                       ELSE atol(str)

\* C10 as stated: open on a handle that is open returns failure and the
\* handle is still open on its connection, its cached statements in place.
C10_SecondOpenRejected ==
    (last.op = "open" /\ last.conn # NullConn /\ last.dbfile # NullPath) =>
        /\ last.ret = 0
        /\ m_cobj = last.conn
        /\ m_pd = last.pd

\* C11: close leaves the handle closed (no connection, is_open false) with
\* every cached statement slot empty, from any state; on a closed handle
\* it changes nothing; and an open that follows a close succeeds again
\* (read-write, or read-only on an existing file).
C11_CloseIdempotent ==
    [][/\ last'.op = "close" =>
             /\ m_cobj' = NullConn
             /\ dc_sqlite3_is_open(Pack') = 0
             /\ \A i \in Slots : m_pd'[i] = NoStmt
             /\ m_cobj = NullConn =>
                   UNCHANGED <<m_cobj, m_pd, m_transactionCount, file, tx, nconn>>
       /\ (last.op = "close" /\ last'.op = "open" /\ (file.exists \/ ~last'.ro))
             => (last'.ret = 1 /\ m_cobj' # NullConn)]_vars

C11_Witness ==
    /\ last.op = "close"
    /\ last.conn # NullConn
    /\ last.pd["BEGIN_transaction"] # NoStmt
    /\ last.depth = 1
    /\ m_cobj = NullConn
    /\ \A i \in Slots : m_pd[i] = NoStmt

\* C12: if any statement of the bootstrap fails (a table creation, an index
\* creation, the insert of the reserved rows, the write of dbversion = 0),
\* the open aborts: it executes no ladder step, returns failure and leaves
\* the handle closed.
C12_BootstrapFailureAborts ==
    (last.op = "open" /\ last.log.boot /\ last.log.booterrors > 0) =>
        /\ last.ret = 0
        /\ last.log.steps = <<>>
        /\ m_cobj = NullConn

Range(f) == {f[i] : i \in DOMAIN f}

\* the targets of the ladder above v, ascending
TargetsAbove(v) ==
    SelectSeq([i \in 1..Len(Ladder) |-> Ladder[i].target], LAMBDA t : t > v)

\* C13: when a read-write open was interrupted at any point of the ladder,
\* the next read-write open resumes at the last target whose dbversion
\* write completed: it succeeds, executes no block at or below the stored
\* dbversion, executes every later block in order, and ends with
\* dbversion 40.
C13_InterruptedOpenResumes ==
    [][(last.op = "stop_in_ladder" /\ last'.op = "open" /\ ~last'.ro) =>
          /\ last'.ret = 1
          /\ last'.version = StoredValue(file, "dbversion")
          /\ last'.log.before = IF last'.version = NullStr THEN 0
                                 ELSE atol(last'.version)
          /\ last'.log.before \in {0} \cup Targets
          /\ last'.log.steps = TargetsAbove(last'.log.before)
          /\ StoredValue(file', "dbversion") = FormatInt(LatestVersion)]_vars

\* an open that found dbversion 27, which only an open interrupted between
\* the dbversion writes of blocks 27 and 34 leaves behind
C13_Witness ==
    /\ last.op = "open" /\ last.ret = 1 /\ ~last.ro
    /\ last.version = FormatInt(27)
    /\ last.log.steps = <<34, 39, 40>>
    /\ StoredValue(file, "dbversion") = FormatInt(LatestVersion)

\* the reserved ids are in use in contacts, chats and msgs
Reserved(d) ==
    \A t \in {"contacts", "chats", "msgs"} : 1..LastReserved \subseteq RowIds(d, t)

\* C14: after a successful read-write open of a fresh database the ids
\* 1..9 exist in contacts, chats and msgs; no block of the ladder (block 27
\* deletes the msgs of chats 1 and 2) removes them; a row a user inserts
\* afterwards gets an id of 10 or more.
C14_ReservedIds ==
    [][/\ (last'.op = "open" /\ last'.ret = 1 /\ ~last'.ro /\ last'.log.boot)
             => (Reserved(file') /\ 27 \in Range(last'.log.steps))
       /\ (last'.op = "open" /\ Reserved(file)) => Reserved(file')
       /\ (last'.op = "execute" /\ last'.ret = 1 /\ Reserved(file))
             => /\ Reserved(file')
                /\ RowIds(file', last'.key) \ RowIds(file, last'.key) # {}
                /\ \A i \in RowIds(file', last'.key) \ RowIds(file, last'.key) :
                       i > LastReserved]_vars

\* a message inserted into a database created by this handle's open
C14_Witness ==
    /\ last.op = "execute" /\ last.ret = 1 /\ last.key = "msgs"
    /\ file.msgs = {<<i, 0>> : i \in 1..LastReserved} \cup {<<10, UserChat>>}
    /\ StoredValue(file, "dbversion") = FormatInt(LatestVersion)

\* C15: on a closed handle execute and set_config return failure, prepare
\* and predefine return no statement, get_config returns the default and
\* table_exists returns false; none of them changes the handle, which is
\* as dc_sqlite3_new left it, and a later open succeeds as on a handle
\* never used.
C15_ClosedHandleCalls ==
    [][/\ (m_cobj = NullConn
           /\ last'.op \in {"execute", "set_config", "prepare", "predefine",
                            "get_config", "table_exists"}) =>
             /\ UNCHANGED <<m_cobj, m_pd, m_transactionCount, file, tx, nconn,
                            stmts>>
             /\ last'.op \in {"execute", "set_config", "table_exists"}
                   => last'.ret = 0
             /\ last'.op \in {"prepare", "predefine"} => last'.stmt = NoStmt
             /\ last'.op = "get_config" => last'.sret = last'.def
             /\ m_pd = NoCall.pd /\ stmts = NoStmts /\ tx = NoTx
             /\ m_transactionCount = 0
       /\ (m_cobj = NullConn /\ last.op # "new" /\ last'.op = "open") =>
             /\ (last'.ret = 1) = (~last'.ro \/ file.exists)
             /\ (last'.ret = 1) = (m_cobj' # NullConn)
             /\ (last'.ret = 1 /\ ~last'.ro) =>
                    StoredValue(file', "dbversion") = FormatInt(LatestVersion)]_vars

\* a predefine on a handle that was opened and closed again
C15_Witness ==
    /\ last.op = "predefine" /\ last.conn = NullConn /\ nconn = 1
    /\ last.key = "SELECT_v_FROM_config_k"
    /\ last.val = <<SELECT_v_FROM_config_k_STATEMENT>>
    /\ last.stmt = NoStmt /\ m_cobj = NullConn /\ file.exists

\* C16: predefine on a slot that is already compiled returns that same
\* statement reset, its cursor rewound and all its parameter bindings
\* cleared; on an empty slot it compiles the text, stores the statement in
\* the slot and returns it.
C16_PredefineResetsAndClears ==
    [][(last'.op = "predefine" /\ m_cobj # NullConn /\ last'.key \in Slots) =>
          /\ m_pd[last'.key] # NoStmt =>
                /\ last'.stmt = m_pd[last'.key]
                /\ m_pd' = m_pd
                /\ ~stmts'[last'.key].row
                /\ stmts'[last'.key].bound = {}
          /\ (m_pd[last'.key] = NoStmt /\ last'.stmt # NoStmt) =>
                /\ last'.val = <<last'.stmt>>
                /\ m_pd' = [m_pd EXCEPT ![last'.key] = last'.stmt]
                /\ stmts'[last'.key] = Ready]_vars

\* C16, as the code has it: predefine on a slot that is already compiled
\* returns that same statement with its cursor rewound and its parameter
\* bindings as they were; on an empty slot it compiles the text, stores
\* the statement in the slot and returns it.
C16_PredefineRewinds ==
    [][(last'.op = "predefine" /\ m_cobj # NullConn /\ last'.key \in Slots) =>
          /\ m_pd[last'.key] # NoStmt =>
                /\ last'.stmt = m_pd[last'.key]
                /\ m_pd' = m_pd
                /\ ~stmts'[last'.key].row
                /\ stmts'[last'.key].bound = stmts[last'.key].bound
          /\ (m_pd[last'.key] = NoStmt /\ last'.stmt # NoStmt) =>
                /\ last'.val = <<last'.stmt>>
                /\ m_pd' = [m_pd EXCEPT ![last'.key] = last'.stmt]
                /\ stmts'[last'.key] = Ready]_vars

\* predefine with another text on the slot of the SELECT, which a config
\* call had bound and stepped
C16_Witness ==
    /\ last.op = "predefine" /\ last.conn # NullConn
    /\ last.key = "SELECT_v_FROM_config_k"
    /\ last.val = <<BEGIN_STATEMENT>>
    /\ last.pd["SELECT_v_FROM_config_k"] = SELECT_v_FROM_config_k_STATEMENT
    /\ last.stmt = SELECT_v_FROM_config_k_STATEMENT
    /\ stmts["SELECT_v_FROM_config_k"] = [row |-> FALSE, bound |-> {1}]

\* C17: after any sequence of predefine calls (with another text for a
\* compiled slot, with no text, with a text that does not compile, with an
\* index at or above PREDEFINED_CNT) and reset_all calls, each slot is
\* empty or holds the statement of the first text registered in it since
\* the open; nothing but close empties a slot, and reset_all neither
\* empties nor recompiles one.
C17_SlotsKeepFirstStatement ==
    [][/\ \A i \in Slots :
             /\ m_pd'[i] \in {NoStmt, last'.reg[i]}
             /\ last'.reg[i] # NoStmt => m_pd'[i] = last'.reg[i]
       /\ last'.op \notin {"open", "close"} =>
             \A i \in Slots : m_pd[i] # NoStmt => m_pd'[i] = m_pd[i]
       /\ last'.op = "reset_all" => m_pd' = m_pd
       /\ (last'.op = "predefine" /\ last'.stmt = NoStmt) => m_pd' = m_pd
       /\ (last'.op = "predefine" /\ last'.key \notin Slots) =>
             (last'.stmt = NoStmt /\ m_pd' = m_pd)]_vars

\* the slot of BEGIN was first given the text of the SELECT; a predefine
\* with the text of BEGIN gets the SELECT statement
C17_Witness ==
    /\ last.op = "predefine" /\ last.key = "BEGIN_transaction"
    /\ last.val = <<BEGIN_STATEMENT>>
    /\ last.stmt = SELECT_v_FROM_config_k_STATEMENT
    /\ last.reg["BEGIN_transaction"] = SELECT_v_FROM_config_k_STATEMENT
    /\ m_pd["BEGIN_transaction"] = SELECT_v_FROM_config_k_STATEMENT

\* C18: no operation of the Store other than unref (and lock and unlock
\* themselves) acquires the mutex: open, close, execute, predefine, the
\* config calls and begin/commit/rollback are made by a thread that holds
\* it and leave it as it is.  unref takes the mutex only when the handle is
\* open, closes the connection while holding it and releases it before
\* it destroys it.
C18_OnlyUnrefLocks ==
    [][/\ last'.op \notin {"unref", "lock", "unlock"} =>
             (m_critical_' = m_critical_ /\ last'.log.mx = <<>>)
       /\ (last'.op = "unref" /\ m_cobj # NullConn) =>
             /\ last'.log.mx = << [op |-> "lock", open |-> TRUE],
                                  [op |-> "unlock", open |-> FALSE],
                                  [op |-> "destroy", open |-> FALSE] >>
             /\ m_cobj' = NullConn /\ m_pd' = NoCall.pd
       /\ (last'.op = "unref" /\ m_cobj = NullConn) =>
             last'.log.mx = << [op |-> "destroy", open |-> FALSE] >>
       /\ last'.op = "unref" => m_critical_' = "destroyed"]_vars

\* unref of an open handle with a transaction in progress
C18_Witness ==
    /\ last.op = "unref" /\ last.conn # NullConn /\ last.depth = 1
    /\ last.pd["BEGIN_transaction"] # NoStmt
    /\ Len(last.log.mx) = 3
    /\ m_critical_ = "destroyed" /\ m_cobj = NullConn

\* C19: a commit or rollback at nesting depth 1 whose COMMIT or ROLLBACK
\* statement fails still brings the transaction counter to 0; the failure
\* is logged and nothing else.
C19_FailedStatementStillDecrements ==
    [][(last'.op \in {"commit", "rollback"} /\ m_transactionCount = 1
        /\ last'.log.errors > 0) =>
          /\ m_transactionCount' = 0
          /\ last'.log.errors = 1
          /\ UNCHANGED <<m_cobj, file, tx>>]_vars

\* a COMMIT the engine refused inside an open physical transaction
C19_Witness ==
    /\ last.op = "commit" /\ last.depth = 1 /\ last.conn # NullConn
    /\ last.log.errors = 1 /\ last.log.sql = <<COMMIT_STATEMENT>>
    /\ tx.active /\ m_transactionCount = 0

\* the version an open finds: 0 when there is no dbversion row
Observed(version) == IF version = NullStr THEN 0 ELSE atol(version)

\* C20: a read-write open that observes version v runs exactly the blocks
\* with a target in 1, 2, 7, 10, 12, 17, 18, 27, 34, 39, 40 greater than v,
\* in ascending order; each ends with dbversion = its target stored before
\* the next starts; the stored dbversion never decreases; no block with a
\* target at or below v runs.
C20_LadderStepsAboveObserved ==
    (last.op = "open" /\ ~last.ro /\ last.ret = 1) =>
        /\ last.log.before = (IF last.log.boot THEN 0 ELSE Observed(last.version))
        /\ last.log.steps = TargetsAbove(last.log.before)
        /\ Len(last.log.versions) = Len(last.log.steps)
        /\ \A i \in 1..Len(last.log.steps) :
              /\ last.log.versions[i] = FormatInt(last.log.steps[i])
              /\ last.log.steps[i] > last.log.before
              /\ i > 1 => last.log.steps[i - 1] < last.log.steps[i]
        /\ Observed(StoredValue(file, "dbversion")) >= last.log.before
        /\ [i \in 1..Len(Ladder) |-> Ladder[i].target]
              = <<1, 2, 7, 10, 12, 17, 18, 27, 34, 39, 40>>

\* an open that found version 5, which is no target
C20_Witness ==
    /\ last.op = "open" /\ ~last.ro /\ last.ret = 1
    /\ last.version = FormatInt(5)
    /\ last.log.steps = <<7, 10, 12, 17, 18, 27, 34, 39, 40>>
    /\ last.log.versions[1] = FormatInt(7)
    /\ last.log.versions[9] = FormatInt(LatestVersion)

\* C21: in a read-write open the repair pass over acpeerstates runs if and
\* only if block 34 ran in that same open, i.e. the version observed was
\* below 34; it runs after the last block, 40, has stored its dbversion.
C21_RepairIffBlock34 ==
    (last.op = "open" /\ ~last.ro /\ last.ret = 1) =>
        /\ last.log.repair = (34 \in Range(last.log.steps))
        /\ last.log.repair = (last.log.before < 34)
        /\ last.log.repair =>
              /\ last.log.repairat = FormatInt(LatestVersion)
              /\ last.log.steps[Len(last.log.steps)] = LatestVersion
              /\ last.log.versions[Len(last.log.steps)] = FormatInt(LatestVersion)
              /\ \A r \in file.peers : r.recalced
        /\ ~last.log.repair => last.log.repairat = NullStr

\* an open from version 27: blocks 34, 39, 40, then the repair of the row
C21_Witness ==
    /\ last.op = "open" /\ ~last.ro /\ last.ret = 1
    /\ last.version = FormatInt(27)
    /\ last.log.steps = <<34, 39, 40>>
    /\ last.log.repair /\ last.log.repairat = FormatInt(LatestVersion)
    /\ file.peers # {} /\ \A r \in file.peers : r.recalced

\* C22: within block 39 the copy of gossip_key and public_key (and their
\* fingerprints) into verified_key and verified_key_fingerprint, for the
\* rows flagged verified = 2, is run if and only if the version observed
\* at open was exactly 34; from any other version (below 34, or 35..38)
\* block 39 leaves verified_key and verified_key_fingerprint at their
\* defaults.
C22_CopyOnlyFrom34 ==
    (last.op = "open" /\ ~last.ro /\ last.ret = 1) =>
        /\ last.log.copied = (last.log.before = 34)
        /\ last.log.copied => 39 \in Range(last.log.steps)
        /\ last.log.copied =>
              \A r \in file.peers :
                 r.verified_key = (IF r.public_key_verified = 2 THEN "public_key"
                                   ELSE IF r.gossip_key_verified = 2
                                   THEN "gossip_key" ELSE "")
        /\ (~last.log.copied /\ 39 \in Range(last.log.steps)) =>
              \A r \in file.peers : r.verified_key = ""

\* an open from version 34 whose row is flagged gossip_key_verified = 2
C22_Witness ==
    /\ last.op = "open" /\ ~last.ro /\ last.ret = 1
    /\ last.version = FormatInt(34)
    /\ last.log.steps = <<39, 40>> /\ last.log.copied
    /\ \E r \in file.peers :
          r.gossip_key_verified = 2 /\ r.verified_key = "gossip_key"

\* C23: whenever the handle is closed the transaction counter is 0, for
\* any sequence of open, close, begin, commit and rollback (close while a
\* transaction is in progress and begin on a closed handle included); so
\* the first begin after every successful open issues a BEGIN.
C23_ClosedCounterZero == m_cobj = NullConn => m_transactionCount = 0

\* C24: with several threads sharing one Store, each call between lock and
\* unlock, a commit that brings the calling thread's own nesting to zero
\* issues a COMMIT, also while another thread is inside a transaction; and
\* the rows a thread has committed are not discarded by a later rollback
\* of another thread.
C24_ThreadCommitIsPhysical ==
    /\ (last.op = "commit" /\ last.thread # 0
            /\ threads.nest[last.thread] = 0)
          => last.log.sql = <<COMMIT_STATEMENT>>
    /\ \A id \in threads.done : id \in View(Pack).chats

\* the rows of config with the keyname key
RowsOf(d, key) == {i \in 1..Len(d.config) : d.config[i].keyname = key}

\* C27: after any sequence of set_config calls by any number of threads,
\* each made while the calling thread holds the mutex, config has at most
\* one row per keyname, in the file and in what the connection sees, and
\* the cached statements in use are in use by the one thread that holds
\* the mutex.
C27_OneRowPerKey ==
    /\ \A key \in Keys \cup {"dbversion"} :
          /\ Cardinality(RowsOf(file, key)) <= 1
          /\ Cardinality(RowsOf(View(Pack), key)) <= 1
    /\ \A t \in Threads :
          threads.using[t] # {} => (threads.owner = t /\ m_critical_ = "locked")
    /\ \A t, u \in Threads :
          t # u => threads.using[t] \cap threads.using[u] = {}

\* both threads have stored a value under the key, the second finding the
\* row of the first, and the second still holds the statements it stepped
C27_Witness ==
    /\ last.op = "set_config" /\ last.ret = 1 /\ last.thread = 2
    /\ last.log.sql = <<SELECT_v_FROM_config_k_STATEMENT, UPDATE_config_vk_STATEMENT>>
    /\ StoredValue(View(Pack), "k1") = <<"+", "3">>
    /\ threads.using[2] = {"SELECT_v_FROM_config_k", "UPDATE_config_vk"}
    /\ threads.owner = 2
    /\ Cardinality(RowsOf(file, "k1")) = 1

\* the table, the columns or the index that statement s adds are in d
EffectPresent(d, s) ==
    CASE s.k \in {"table", "column"} -> \A c \in s.c : HasCol(d, s.t, c)
      [] s.k = "index" -> s.n \in d.idx
      [] OTHER -> TRUE

\* C25: in every reachable state, if the stored dbversion is >= t for a
\* target t of the ladder, the tables, columns and indices of block t are
\* in the database, also when a schema statement of a block failed during
\* the open.
C25_VersionReflectsSchema ==
    \A i \in 1..Len(Ladder) :
        Observed(StoredValue(file, "dbversion")) >= Ladder[i].target =>
            \A k \in 1..Len(Ladder[i].stmts) :
                EffectPresent(file, Ladder[i].stmts[k])

\* C26: for a database that starts below version 34, when a read-write
\* open has returned successfully with dbversion = 40 stored, the repair
\* pass has run over the rows of acpeerstates, also when an earlier open
\* was interrupted after dbversion = 34 was written and a later open
\* completed the migration.
C26_RepairedBeforeLatest ==
    (last.op = "open" /\ ~last.ro /\ last.ret = 1
        /\ StoredValue(file, "dbversion") = FormatInt(LatestVersion))
      => \A r \in file.peers : r.recalced
====
